---- MODULE Spec2Model ----
(***************************************************************************)
(* disk_hammer: main() of src/disk_hammer.c as a state machine.            *)
(*                                                                         *)
(* The program is single threaded; pc is the position of main().  The      *)
(* kernel (pathconf, posix_memalign, mlock, open, writev, close) is the    *)
(* environment: each call's outcome is drawn with \E in the action that    *)
(* makes the call.  The target file is the pair (file, fpos): its bytes    *)
(* and the offset of the open file description.                            *)
(*                                                                         *)
(* Sizes are scaled: a "byte" of the model is a byte of the program, but   *)
(* chunk sizes, alignments and file lengths are a few bytes, and the       *)
(* machine words are UINT_BITS (unsigned int / int) and SIZE_BITS          *)
(* (size_t / ssize_t / uint64_t) bits wide instead of 32 and 64.           *)
(***************************************************************************)
EXTENDS Integers, Sequences, FiniteSets, TLC

\* ---------------------------------------------------------------- bounds
UINT_BITS == 14         \* width of int / unsigned int / uint32_t (scaled)
SIZE_BITS == 28         \* width of size_t / ssize_t / uint64_t (scaled)
IOV_MAX == 2            \* <limits.h> ceiling on iovecs per writev (scaled)
MaxChunkSize == 3       \* opts.chunk_size is drawn from 1..MaxChunkSize
MaxChunkCount == 2      \* opts.chunk_count is drawn from 1..MaxChunkCount
MaxFileSize == 4        \* the LENGTH argument is drawn from 0..MaxFileSize
MaxIters == 3           \* ITERS is drawn from 0..MaxIters; caps the loop
MaxAlign == 2           \* pathconf reports -1 or 1..MaxAlign

\* ------------------------------------------------------ program constants
DEFAULT_ALIGNMENT == 4096
SEED == 1
RAND_MODULUS == 255     \* buffer[i] = random() % 0xff

UintMod == 2 ^ UINT_BITS
SizeMod == 2 ^ SIZE_BITS
SSIZE_MAX == (SizeMod \div 2) - 1

ToUint(x) == x % UintMod
ToSize(x) == x % SizeMod

O_WRONLY == "O_WRONLY"
O_CREAT == "O_CREAT"
O_DIRECT == "O_DIRECT"

\* A byte no buffer byte can equal (random() % 0xff is at most 254): the
\* content of the target file before the program runs.
OLD_BYTE == 255

VARIABLES
  pc,                    \* position of main()
  status,                \* exit status once pc = "exit"
  opts,                  \* struct dh_opts
  length_arg,            \* strtosize(argv[argi+1]), the requested length
  niters,
  file_size,
  file_chunks,
  alignment,
  buffer_size,
  buffer,                \* buffer[o], o in 0..buffer_size-1
  locked,                \* mlock() succeeded on buffer
  cksums,                \* what the verbose cksum display was computed from
  pathconf_calls,        \* the results of the pathconf() calls made
  iovs,                  \* iovs[k], k in 0..n-1: [base, len], base an offset
  oflags,
  i,
  fd,                    \* "closed" or "open"
  piov,                  \* index into iovs
  iovs_remaining,
  iovs_to_write,
  bytes_written,
  bytes_written_partial,
  file,                  \* [exists, data]: the target file
  fpos,                  \* file offset of the open description
  open_calls,            \* the open() calls of the current iteration
  warnings,              \* number of "O_DIRECT not supported" warnings
  last_call,             \* the last system call made on the target
  calls,                 \* successful open() and close() calls so far
  starts                 \* per iteration, the iovec the drain started at

vars == <<pc, status, opts, length_arg, niters, file_size, file_chunks,
          alignment, buffer_size, buffer, locked, cksums, pathconf_calls,
          iovs, oflags, i, fd,
          piov, iovs_remaining, iovs_to_write, bytes_written,
          bytes_written_partial, file, fpos, open_calls, warnings,
          last_call, calls, starts>>

startup_vars == <<file_size, file_chunks, alignment, buffer_size, buffer,
                  locked, cksums, pathconf_calls>>
loop_vars == <<iovs, oflags, i, fd, piov, iovs_remaining, iovs_to_write,
               bytes_written, bytes_written_partial, fpos, open_calls,
               warnings, last_call, calls, starts>>
config_vars == <<opts, length_arg, niters>>

\* ----------------------------------------------------------------- helpers
Max(a, b) == IF a > b THEN a ELSE b

\* The target before the run: absent, shorter than any effective length but
\* the smallest, or longer than every effective length.
PriorFiles ==
  { [exists |-> FALSE, data |-> <<>>],
    [exists |-> TRUE, data |-> <<OLD_BYTE>>],
    [exists |-> TRUE, data |-> [k \in 1..(MaxFileSize + 1) |-> OLD_BYTE]] }

\* write(2) at offset pos: overwrite in place, extend at the end.
WriteAt(data, pos, bytes) ==
  [k \in 1..Max(Len(data), pos + Len(bytes)) |->
     IF k > pos /\ k <= pos + Len(bytes) THEN bytes[k - pos] ELSE data[k]]

\* A record of one system call on the target: open, writev (count iovecs
\* from iovs[idx]), the corrective writev of the one iovec iovs[idx], close.
Call(kind, idx, count, base, len, ret) ==
  [kind |-> kind, idx |-> idx, count |-> count, base |-> base, len |-> len,
   ret |-> ret]

NoCall == Call("none", 0, 0, 0, 0, 0)

\* Exit with a slip: a failure path that returns 0.
ExitStatusZero(code) == /\ pc' = "exit"
                        /\ status' = 0

\* return code; from main.
Exit(code) == /\ pc' = "exit"
              /\ status' = code

\* ------------------------------------------------------------------- Init
Init ==
  /\ pc = "plan"
  /\ status = 0
  /\ opts \in [chunk_size : 1..MaxChunkSize, chunk_count : 1..MaxChunkCount,
               dry_run : BOOLEAN, verbose : BOOLEAN]
  /\ length_arg \in 0..MaxFileSize
  /\ niters \in 0..MaxIters
  /\ file_size = length_arg
  /\ file_chunks = 0
  /\ alignment = 0
  /\ buffer_size = 0
  /\ buffer = <<>>
  /\ locked = FALSE
  /\ cksums = <<>>
  /\ pathconf_calls = <<>>
  /\ iovs = <<>>
  /\ oflags = {}
  /\ i = 0
  /\ fd = "closed"
  /\ piov = 0
  /\ iovs_remaining = 0
  /\ iovs_to_write = 0
  /\ bytes_written = 0
  /\ bytes_written_partial = 0
  /\ file \in PriorFiles
  /\ fpos = 0
  /\ open_calls = <<>>
  /\ warnings = 0
  /\ last_call = NoCall
  /\ calls = [open |-> 0, close |-> 0]
  /\ starts = <<>>

\* ------------------------------------------------------------ command line
\* While pc = "parse", opts holds tmp_opts as the option loop leaves it:
\* the -s and -c arguments converted by strtosize() and strtoul(), or the
\* defaults.  Line 295 copies it to main's opts when parsing succeeds.
InitCmdline ==
  /\ pc = "parse"
  /\ status = 0
  /\ opts \in [chunk_size : 0..MaxChunkSize, chunk_count : 0..MaxChunkCount,
               dry_run : BOOLEAN, verbose : BOOLEAN]
  /\ length_arg \in 0..MaxFileSize
  /\ niters \in 0..MaxIters
  /\ file_size = length_arg
  /\ file_chunks = 0
  /\ alignment = 0
  /\ buffer_size = 0
  /\ buffer = <<>>
  /\ locked = FALSE
  /\ cksums = <<>>
  /\ pathconf_calls = <<>>
  /\ iovs = <<>>
  /\ oflags = {}
  /\ i = 0
  /\ fd = "closed"
  /\ piov = 0
  /\ iovs_remaining = 0
  /\ iovs_to_write = 0
  /\ bytes_written = 0
  /\ bytes_written_partial = 0
  /\ file \in PriorFiles
  /\ fpos = 0
  /\ open_calls = <<>>
  /\ warnings = 0
  /\ last_call = NoCall
  /\ calls = [open |-> 0, close |-> 0]
  /\ starts = <<>>

\* line 248: the test made after -c.
ZeroCountRejected(tmp_opts) == tmp_opts.chunk_count = 0

\* line 260: the test made after -s; it reads chunk_count, not chunk_size.
ZeroSizeRejected(tmp_opts) == tmp_opts.chunk_count = 0

\* lines 217-298 and 394-398: a rejected option makes parse_command_line
\* return -1 and main return 1.
ParseCommandLine ==
  /\ pc = "parse"
  /\ IF ZeroCountRejected(opts) \/ ZeroSizeRejected(opts)
     THEN Exit(1)
     ELSE pc' = "plan" /\ status' = status
  /\ UNCHANGED <<config_vars, startup_vars, loop_vars, file>>

\* ------------------------------------------------------------- file plan
\* FileChunks with a slip: rounded up instead of down.
FileChunksRoundedUp(size, chunk_size) == (size + chunk_size - 1) \div chunk_size

FileChunks(size, chunk_size) == size \div chunk_size
EffectiveLength(chunks, chunk_size) == ToSize(chunks * chunk_size)

\* line 413 with opts.chunk_size = 0: the division is undefined.  Either
\* the process is killed by SIGFPE (the x86 divide instruction traps), or
\* the quotient is 0 (the arm64 divide instruction yields 0) and the run
\* goes on to line 417.
DivisionByZero ==
  \/ /\ pc' = "killed"
     /\ UNCHANGED <<status, file_chunks, file_size>>
  \/ /\ file_chunks' = 0
     /\ file_size' = 0
     /\ Exit(1)

\* lines 412-422
ComputeFilePlan ==
  /\ pc = "plan"
  /\ IF opts.chunk_size = 0
     THEN DivisionByZero
     ELSE /\ file_chunks' = FileChunks(file_size, opts.chunk_size)
          /\ file_size' = EffectiveLength(file_chunks', opts.chunk_size)
          /\ IF file_size' = 0
             THEN Exit(1)
             ELSE pc' = "pathconf" /\ status' = status
  /\ UNCHANGED <<config_vars, alignment, buffer_size, buffer, locked, cksums,
                 pathconf_calls, loop_vars, file>>

\* ------------------------------------------------------ alignment resolver
NoError == "0"

\* int alignment = pathconf(...): the long result truncated to int.
ToInt(x) == LET u == x % UintMod
            IN IF u >= UintMod \div 2 THEN u - UintMod ELSE u

\* The values a filesystem may report for _PC_REC_XFER_ALIGN: small
\* alignments, zero, and a long that does not fit the int it is stored in,
\* which reads back negative.
AlignReports == 0..MaxAlign \cup {UintMod \div 2}

\* pathconf(filename, _PC_REC_XFER_ALIGN): a value, or -1 with errno left 0
\* (no limit), or -1 with errno set.  A missing target gives ENOENT.
PathconfTarget(exists) ==
  IF exists
  THEN {[ret |-> v, errno |-> NoError] : v \in AlignReports}
       \cup {[ret |-> -1, errno |-> NoError], [ret |-> -1, errno |-> "EACCES"]}
  ELSE {[ret |-> -1, errno |-> "ENOENT"]}

\* pathconf on the containing directory (or "."): a value or -1.
PathconfDir == {-1} \cup AlignReports

\* lines 443-464: the retried and defaulted alignment.
ResolvedAlignment(first, second) ==
  LET retried == IF first.ret = -1 THEN ToInt(second) ELSE ToInt(first.ret)
  IN IF retried = -1 THEN DEFAULT_ALIGNMENT ELSE retried

\* lines 437-464
ResolveAlignment ==
  /\ pc = "pathconf"
  /\ \E first \in PathconfTarget(file.exists), second \in PathconfDir :
       IF first.ret = -1 /\ first.errno = NoError
       THEN /\ alignment' = -1
            /\ pathconf_calls' = <<first>>
            /\ Exit(1)
       ELSE /\ alignment' = ResolvedAlignment(first, second)
            /\ pathconf_calls' = IF first.ret = -1
                                 THEN <<first, [ret |-> second]>>
                                 ELSE <<first>>
            /\ pc' = "validate"
            /\ status' = status
  /\ UNCHANGED <<config_vars, file_size, file_chunks, buffer_size, buffer,
                 locked, cksums, loop_vars, file>>

\* line 467: `alignment > opts.chunk_size` compares int with size_t, so the
\* int is converted to size_t.
AlignmentTooBig(align, chunk_size) == ToSize(align) > chunk_size

\* lines 466-470
ValidateAlignment ==
  /\ pc = "validate"
  /\ IF AlignmentTooBig(alignment, opts.chunk_size)
     THEN Exit(1)
     ELSE pc' = "alloc" /\ status' = status
  /\ UNCHANGED <<config_vars, startup_vars, loop_vars, file>>

\* ---------------------------------------------------------- buffer builder
\* line 473: (opts.chunk_count-1)*alignment is an unsigned int product, the
\* sum is a size_t.
BufferSize(chunk_size, chunk_count, align) ==
  ToSize(chunk_size + ToUint(ToUint(chunk_count - 1) * ToUint(align)))

UNINIT == -1

\* posix_memalign(&buffer, alignment, buffer_size) cannot succeed with an
\* alignment that is not a power of two (zero, or a negative int converted
\* to size_t), nor with a size beyond the largest object.
MemalignCanSucceed(align, size) == align > 0 /\ size <= SSIZE_MAX

\* lines 472-483
AllocateBuffer ==
  /\ pc = "alloc"
  /\ buffer_size' = BufferSize(opts.chunk_size, opts.chunk_count, alignment)
  /\ \E memalign_ok \in BOOLEAN, mlock_ok \in BOOLEAN :
       /\ memalign_ok => MemalignCanSucceed(alignment, buffer_size')
       /\ buffer' = IF memalign_ok
                    THEN [o \in 0..(buffer_size' - 1) |-> UNINIT]
                    ELSE buffer
       /\ locked' = (memalign_ok /\ mlock_ok)
       /\ IF memalign_ok /\ mlock_ok
          THEN pc' = "fill" /\ status' = status
          ELSE Exit(1)
  /\ UNCHANGED <<config_vars, file_size, file_chunks, alignment, cksums,
                 pathconf_calls, loop_vars, file>>

\* The n-th value of random() after srandom(SEED).  The library generator
\* is replaced by a deterministic stream whose values are pairwise distinct
\* over a buffer of the modelled sizes, so that two byte ranges are equal
\* only if they are the same bytes of the buffer.
Random(n) == SEED + n

\* line 488
FillByte(n) == Random(n) % RAND_MODULUS

\* The len bytes of buf at offset off.
BufferBytes(buf, off, len) == [j \in 1..len |-> buf[off + j - 1]]

\* line 494: the bytes zlib_cksum() is given for chunk k (int arithmetic).
CksumChunk(buf, k) == BufferBytes(buf, k * alignment, opts.chunk_size)

\* lines 485-498 (built with HAVE_ZLIB, the Makefile's default)
FillBuffer ==
  /\ pc = "fill"
  /\ buffer' = [o \in 0..(buffer_size - 1) |-> FillByte(o)]
  /\ cksums' = IF opts.verbose
               THEN [k \in 0..(opts.chunk_count - 1) |-> CksumChunk(buffer', k)]
               ELSE cksums
  /\ pc' = "dryrun"
  /\ UNCHANGED <<status, config_vars, file_size, file_chunks, alignment,
                 buffer_size, locked, pathconf_calls, loop_vars, file>>

\* DryRunCheck with a slip: the -n flag is not looked at.
DryRunIgnored ==
  /\ pc = "dryrun"
  /\ pc' = "iovs"
  /\ status' = status
  /\ UNCHANGED <<config_vars, startup_vars, loop_vars, file>>

\* lines 500-505
DryRunCheck ==
  /\ pc = "dryrun"
  /\ IF opts.dry_run THEN Exit(0) ELSE pc' = "iovs" /\ status' = status
  /\ UNCHANGED <<config_vars, startup_vars, loop_vars, file>>

\* ------------------------------------------------------ descriptor planner
\* IovCount with a slip: no chunk_count-1 extra entries.
IovCountNoExtra(chunks, chunk_count) == chunks

\* lines 508, 514: file_chunks+(opts.chunk_count-1), uint64_t + uint32_t.
IovCount(chunks, chunk_count) == ToSize(chunks + ToUint(chunk_count - 1))

\* IovBase with a slip: every iovec points at the start of the buffer.
IovBaseZero(k) == 0

\* line 515: (i % opts.chunk_count) * alignment in unsigned int arithmetic.
IovBase(k) == ToUint((ToUint(k) % opts.chunk_count) * ToUint(alignment))

\* lines 507-520
BuildIovs ==
  /\ pc = "iovs"
  /\ \E malloc_ok \in BOOLEAN :
       IF malloc_ok
       THEN /\ iovs' = [k \in 0..(IovCount(file_chunks, opts.chunk_count) - 1)
                          |-> [base |-> IovBase(k), len |-> opts.chunk_size]]
            /\ oflags' = {O_WRONLY, O_CREAT, O_DIRECT}
            /\ pc' = "loop"
            /\ status' = status
       ELSE /\ Exit(1)
            /\ UNCHANGED <<iovs, oflags>>
  /\ UNCHANGED <<config_vars, startup_vars, i, fd, piov, iovs_remaining,
                 iovs_to_write, bytes_written, bytes_written_partial, fpos,
                 open_calls, warnings, last_call, calls, starts, file>>

\* ------------------------------------------------------ write-cycle engine
\* LoopCond with a slip: an off-by-one bound.
LoopCondInclusive(it, n) == it <= n \/ n = 0

\* line 523: the for loop's condition.
LoopCond(it, n) == it < n \/ n = 0

\* StartIndex with a slip: every iteration starts at the first iovec.
StartIndexFixed(it) == 0

\* line 549: i % opts.chunk_count, int converted to unsigned.
StartIndex(it) == ToUint(it) % opts.chunk_count

\* open(2) results the environment can give.
OpenResults == {"ok", "EINVAL", "EACCES"}

\* RetryWithoutDirect with a slip: the downgrade allowed in any iteration.
RetryInAnyIteration(errno, it, flags) ==
  errno = "EINVAL" /\ O_DIRECT \in flags

\* line 531: the one recognised failure.
RetryWithoutDirect(errno, it, flags) ==
  errno = "EINVAL" /\ it = 0 /\ O_DIRECT \in flags

\* line 532
DropDirect(flags) == flags \ {O_DIRECT}

\* A successful open(filename, flags, 0666) on target f.
OpenEffect(f, flags) ==
  [exists |-> TRUE,
   data |-> IF f.exists /\ "O_TRUNC" \notin flags THEN f.data ELSE <<>>]

OpenCall(flags, result) ==
  [iter |-> i, direct |-> O_DIRECT \in flags, result |-> result]

\* lines 523-550: one pass of the loop test, the open (with its retry) and
\* the start of the drain.
OpenFile ==
  /\ pc = "loop"
  /\ LoopCond(i, niters)
  /\ i < MaxIters
  /\ \E first \in OpenResults, second \in OpenResults :
       LET retry == first # "ok" /\ RetryWithoutDirect(first, i, oflags)
           flags == IF retry THEN DropDirect(oflags) ELSE oflags
           opened == first = "ok" \/ (retry /\ second = "ok")
       IN /\ oflags' = flags
          /\ open_calls' = IF retry
                           THEN <<OpenCall(oflags, first), OpenCall(flags, second)>>
                           ELSE <<OpenCall(oflags, first)>>
          /\ warnings' = IF retry /\ second = "ok" THEN warnings + 1 ELSE warnings
          /\ last_call' = Call("open", 0, 0, 0, 0, IF opened THEN 0 ELSE -1)
          /\ IF opened
             THEN /\ fd' = "open"
                  /\ calls' = [calls EXCEPT !.open = @ + 1]
                  /\ file' = OpenEffect(file, flags)
                  /\ fpos' = 0
                  /\ piov' = StartIndex(i)
                  /\ iovs_remaining' = file_chunks
                  /\ starts' = Append(starts, [idx |-> piov', base |-> iovs[piov'].base])
                  /\ pc' = "drain"
                  /\ status' = status
             ELSE /\ Exit(1)
                  /\ UNCHANGED <<fd, file, fpos, piov, iovs_remaining, calls,
                                 starts>>
  /\ UNCHANGED <<config_vars, startup_vars, iovs, i, iovs_to_write,
                 bytes_written, bytes_written_partial>>

\* The bytes an iovec references.
IovBytes(v) == BufferBytes(buffer, v.base, v.len)

\* The bytes writev(fd, &iovs[first], n) is asked to write.
RECURSIVE Gather(_, _)
Gather(first, n) ==
  IF n = 0 THEN <<>> ELSE IovBytes(iovs[first]) \o Gather(first + 1, n - 1)

\* IovsToWrite with a slip: the byte ceiling of lines 560-562 left out.
IovsToWriteNoByteCap(remaining) ==
  IF remaining > IOV_MAX THEN IOV_MAX ELSE remaining

\* lines 554-562: the iovec count of one writev call.
IovsToWrite(remaining) ==
  LET capped == IF remaining > IOV_MAX THEN IOV_MAX ELSE remaining
  IN IF ToSize(capped * opts.chunk_size) > SSIZE_MAX
     THEN SSIZE_MAX \div opts.chunk_size
     ELSE capped

\* line 573: bytes_written < iovs_to_write * opts.chunk_size (unsigned).
IncompleteWrite(written, count) ==
  ToSize(written) < ToSize(count * opts.chunk_size)

\* line 576
CompleteIovs(written) == written \div opts.chunk_size

\* line 578
PartialBytes(written) == written % opts.chunk_size

\* AdjustIov with a slip: the length adjusted but not the pointer.
AdjustIovLenOnly(v, by) == [base |-> v.base, len |-> ToSize(v.len - by)]

\* AdjustIov with a slip: the adjustment is never undone.
AdjustIovNoRestore(v, by) ==
  IF by < 0 THEN v ELSE [base |-> v.base + by, len |-> ToSize(v.len - by)]

\* lines 582-583 (by = bytes_written_partial) and 594-595 (by = -partial)
AdjustIov(v, by) == [base |-> v.base + by, len |-> ToSize(v.len - by)]

\* line 589: the test for a second incomplete write.
DoubleIncomplete(written, partial) == written < partial

\* Advance with a slip: the pointer moved one descriptor too far.
AdvanceTooFar(count) ==
  /\ piov' = piov + count + 1
  /\ iovs_remaining' = ToSize(iovs_remaining - count)

\* lines 601-602
Advance(count) ==
  /\ piov' = piov + count
  /\ iovs_remaining' = ToSize(iovs_remaining - count)

\* lines 551-583, 600-603: one writev of the drain loop, up to the
\* corrective write if one is needed.
DrainWritev ==
  /\ pc = "drain"
  /\ iovs_remaining > 0
  /\ LET count == IovsToWrite(iovs_remaining)
         data == Gather(piov, count)
     IN \E ret \in {-1} \cup 0..Len(data) :
          /\ bytes_written' = ret
          /\ last_call' = Call("writev", piov, count, iovs[piov].base, Len(data), ret)
          /\ IF ret = -1
             THEN /\ Exit(1)
                  /\ iovs_to_write' = count
                  /\ UNCHANGED <<file, fpos, iovs, piov, iovs_remaining,
                                 bytes_written_partial>>
             ELSE /\ file' = [file EXCEPT !.data = WriteAt(@, fpos, SubSeq(data, 1, ret))]
                  /\ fpos' = fpos + ret
                  /\ status' = status
                  /\ IF IncompleteWrite(ret, count)
                     THEN /\ iovs_to_write' = CompleteIovs(ret)
                          /\ bytes_written_partial' = PartialBytes(ret)
                          /\ IF bytes_written_partial' > 0
                             THEN /\ iovs' = [iovs EXCEPT ![piov + iovs_to_write'] =
                                                AdjustIov(@, bytes_written_partial')]
                                  /\ pc' = "partial"
                                  /\ UNCHANGED <<piov, iovs_remaining>>
                             ELSE /\ Advance(iovs_to_write')
                                  /\ pc' = "drain"
                                  /\ UNCHANGED iovs
                     ELSE /\ iovs_to_write' = count
                          /\ Advance(count)
                          /\ pc' = "drain"
                          /\ UNCHANGED <<iovs, bytes_written_partial>>
  /\ UNCHANGED <<config_vars, startup_vars, oflags, i, fd, open_calls,
                 warnings, calls, starts>>

\* lines 584-603: the corrective write for the partially written iovec.
CorrectiveWrite ==
  /\ pc = "partial"
  /\ LET partial == iovs[piov + iovs_to_write]
         data == IovBytes(partial)
     IN \E ret \in {-1} \cup 0..Len(data) :
          /\ bytes_written' = ret
          /\ last_call' = Call("corrective", piov + iovs_to_write, 1,
                               partial.base, partial.len, ret)
          /\ IF ret = -1
             THEN /\ Exit(1)
                  /\ UNCHANGED <<file, fpos, iovs, iovs_to_write, piov,
                                 iovs_remaining>>
             ELSE /\ file' = [file EXCEPT !.data = WriteAt(@, fpos, SubSeq(data, 1, ret))]
                  /\ fpos' = fpos + ret
                  /\ IF DoubleIncomplete(ret, bytes_written_partial)
                     THEN /\ Exit(1)
                          /\ UNCHANGED <<iovs, iovs_to_write, piov,
                                         iovs_remaining>>
                     ELSE /\ iovs' = [iovs EXCEPT ![piov + iovs_to_write] =
                                        AdjustIov(@, -bytes_written_partial)]
                          /\ iovs_to_write' = iovs_to_write + 1
                          /\ Advance(iovs_to_write')
                          /\ pc' = "drain"
                          /\ status' = status
  /\ UNCHANGED <<config_vars, startup_vars, oflags, i, fd,
                 bytes_written_partial, open_calls, warnings, calls, starts>>

\* lines 605-623 and the loop's i++
CloseFile ==
  /\ pc = "drain"
  /\ iovs_remaining = 0
  /\ \E close_ok \in BOOLEAN :
       /\ last_call' = Call("close", 0, 0, 0, 0, IF close_ok THEN 0 ELSE -1)
       /\ IF close_ok
          THEN /\ fd' = "closed"
               /\ calls' = [calls EXCEPT !.close = @ + 1]
               /\ i' = ToInt(i + 1)
               /\ pc' = "loop"
               /\ status' = status
          ELSE /\ Exit(1)
               /\ fd' \in {"open", "closed"}   \* unspecified after an error
               /\ UNCHANGED <<i, calls>>
  /\ UNCHANGED <<config_vars, startup_vars, iovs, oflags, piov,
                 iovs_remaining, iovs_to_write, bytes_written,
                 bytes_written_partial, fpos, open_calls, warnings, starts,
                 file>>

\* lines 523, 625: the loop condition fails, main returns 0.
Finish ==
  /\ pc = "loop"
  /\ ~LoopCond(i, niters)
  /\ Exit(0)
  /\ UNCHANGED <<config_vars, startup_vars, loop_vars, file>>

Next ==
  \/ ComputeFilePlan
  \/ ResolveAlignment
  \/ ValidateAlignment
  \/ AllocateBuffer
  \/ FillBuffer
  \/ DryRunCheck
  \/ BuildIovs
  \/ OpenFile
  \/ DrainWritev
  \/ CorrectiveWrite
  \/ CloseFile
  \/ Finish

Spec == Init /\ [][Next]_vars

\* Runs in which the target does not exist when the program starts.
InitNewFile == Init /\ ~file.exists
SpecNewFile == InitNewFile /\ [][Next]_vars

\* The run from the parsed command line on.
NextCmdline ==
  \/ ParseCommandLine
  \/ Next

SpecCmdline == InitCmdline /\ [][NextCmdline]_vars

\* ------------------------------------------------- the run at large sizes
\* The same run with chunk sizes, chunk counts and lengths near the limits
\* of size_t, ssize_t and unsigned int.  The contents of the buffer and of
\* the file are left out (a buffer of that size cannot be enumerated): the
\* actions below keep the sizes, the iovec array, the counters and the call
\* log of lines 472-483 and 551-603 and nothing else (file and fpos stay as
\* the open left them).
Min(a, b) == IF a < b THEN a ELSE b

\* Chunk sizes around SSIZE_MAX / k for the k iovecs one writev may take,
\* the default alignment, and the largest multiple of it.
LargeChunkSizes ==
  {DEFAULT_ALIGNMENT, SizeMod - DEFAULT_ALIGNMENT}
    \cup {SSIZE_MAX \div k + d : k \in 1..(IOV_MAX + 1), d \in {0, 1}}

\* Chunk counts: small ones, and the first whose (chunk_count-1)*4096 does
\* not fit an unsigned int.
LargeChunkCounts == {1, 2, UintMod \div DEFAULT_ALIGNMENT + 1}

\* LENGTH arguments of up to IOV_MAX+1 chunks that fit size_t.
LargeLengths(chunk_size) ==
  {n \in {k * chunk_size + d :
            k \in 0..Min(IOV_MAX + 1, (SizeMod - 1) \div chunk_size),
            d \in {0, 1}} : n < SizeMod}

InitLarge ==
  /\ pc = "plan"
  /\ status = 0
  /\ opts \in [chunk_size : LargeChunkSizes, chunk_count : LargeChunkCounts,
               dry_run : {FALSE}, verbose : {FALSE}]
  /\ length_arg \in LargeLengths(opts.chunk_size)
  /\ niters = 1
  /\ file_size = length_arg
  /\ file_chunks = 0
  /\ alignment = 0
  /\ buffer_size = 0
  /\ buffer = <<>>
  /\ locked = FALSE
  /\ cksums = <<>>
  /\ pathconf_calls = <<>>
  /\ iovs = <<>>
  /\ oflags = {}
  /\ i = 0
  /\ fd = "closed"
  /\ piov = 0
  /\ iovs_remaining = 0
  /\ iovs_to_write = 0
  /\ bytes_written = 0
  /\ bytes_written_partial = 0
  /\ file \in {f \in PriorFiles : Len(f.data) <= 1}
  /\ fpos = 0
  /\ open_calls = <<>>
  /\ warnings = 0
  /\ last_call = NoCall
  /\ calls = [open |-> 0, close |-> 0]
  /\ starts = <<>>

\* lines 472-483 without the buffer's bytes; the fill (485-489) changes
\* nothing that is kept, and opts.dry_run is not set (line 500).
AllocateSizeOnly ==
  /\ pc = "alloc"
  /\ buffer_size' = BufferSize(opts.chunk_size, opts.chunk_count, alignment)
  /\ \E memalign_ok \in BOOLEAN, mlock_ok \in BOOLEAN :
       /\ memalign_ok => MemalignCanSucceed(alignment, buffer_size')
       /\ locked' = (memalign_ok /\ mlock_ok)
       /\ IF memalign_ok /\ mlock_ok
          THEN pc' = "iovs" /\ status' = status
          ELSE Exit(1)
  /\ UNCHANGED <<config_vars, file_size, file_chunks, alignment, buffer,
                 cksums, pathconf_calls, loop_vars, file>>

\* What a write call asked for `requested` bytes may return: an error, or a
\* byte count up to the request; the counts kept are those at the ends and
\* around one chunk.
WriteResults(requested) ==
  {-1} \cup ({0, 1, opts.chunk_size - 1, opts.chunk_size,
              opts.chunk_size + 1, requested - 1, requested}
             \cap 0..requested)

\* lines 551-583, 600-603 without the bytes: one writev of the drain loop.
DrainCount ==
  /\ pc = "drain"
  /\ iovs_remaining > 0
  /\ LET count == IovsToWrite(iovs_remaining)
         requested == count * opts.chunk_size
     IN \E ret \in WriteResults(requested) :
          /\ bytes_written' = ret
          /\ last_call' = Call("writev", piov, count, iovs[piov].base, requested, ret)
          /\ IF ret = -1
             THEN /\ Exit(1)
                  /\ iovs_to_write' = count
                  /\ UNCHANGED <<iovs, piov, iovs_remaining,
                                 bytes_written_partial>>
             ELSE /\ status' = status
                  /\ IF IncompleteWrite(ret, count)
                     THEN /\ iovs_to_write' = CompleteIovs(ret)
                          /\ bytes_written_partial' = PartialBytes(ret)
                          /\ IF bytes_written_partial' > 0
                             THEN /\ iovs' = [iovs EXCEPT ![piov + iovs_to_write'] =
                                                AdjustIov(@, bytes_written_partial')]
                                  /\ pc' = "partial"
                                  /\ UNCHANGED <<piov, iovs_remaining>>
                             ELSE /\ Advance(iovs_to_write')
                                  /\ pc' = "drain"
                                  /\ UNCHANGED iovs
                     ELSE /\ iovs_to_write' = count
                          /\ Advance(count)
                          /\ pc' = "drain"
                          /\ UNCHANGED <<iovs, bytes_written_partial>>
  /\ UNCHANGED <<config_vars, startup_vars, oflags, i, fd, fpos, open_calls,
                 warnings, calls, starts, file>>

\* lines 584-603 without the bytes: the corrective write.
CorrectiveCount ==
  /\ pc = "partial"
  /\ LET partial == iovs[piov + iovs_to_write]
     IN \E ret \in WriteResults(partial.len) :
          /\ bytes_written' = ret
          /\ last_call' = Call("corrective", piov + iovs_to_write, 1,
                               partial.base, partial.len, ret)
          /\ IF ret = -1
             THEN /\ Exit(1)
                  /\ UNCHANGED <<iovs, iovs_to_write, piov,
                                 iovs_remaining>>
             ELSE /\ IF DoubleIncomplete(ret, bytes_written_partial)
                     THEN /\ Exit(1)
                          /\ UNCHANGED <<iovs, iovs_to_write, piov,
                                         iovs_remaining>>
                     ELSE /\ iovs' = [iovs EXCEPT ![piov + iovs_to_write] =
                                        AdjustIov(@, -bytes_written_partial)]
                          /\ iovs_to_write' = iovs_to_write + 1
                          /\ Advance(iovs_to_write')
                          /\ pc' = "drain"
                          /\ status' = status
  /\ UNCHANGED <<config_vars, startup_vars, oflags, i, fd, fpos,
                 bytes_written_partial, open_calls, warnings, calls, starts,
                 file>>

NextLarge ==
  \/ ComputeFilePlan
  \/ ResolveAlignment
  \/ ValidateAlignment
  \/ AllocateSizeOnly
  \/ BuildIovs
  \/ OpenFile
  \/ DrainCount
  \/ CorrectiveCount
  \/ CloseFile
  \/ Finish

SpecLarge == InitLarge /\ [][NextLarge]_vars

\* ================================================================ claims
\* The quantities the claims are stated in, taken from the data model:
\* C unique chunks, chunk k at buffer offset k * alignment, and the
\* effective length floor(target_length / chunk_size) * chunk_size.
ChunkCount == opts.chunk_count
ChunkSize == opts.chunk_size
EffectiveLen == (length_arg \div ChunkSize) * ChunkSize
Chunk(k) == BufferBytes(buffer, k * alignment, ChunkSize)

\* Chunks first mod C, (first+1) mod C, ... : n of them, concatenated.
RECURSIVE ChunkRun(_, _)
ChunkRun(first, n) ==
  IF n = 0 THEN <<>> ELSE Chunk(first % ChunkCount) \o ChunkRun(first + 1, n - 1)

\* The iteration whose Close has just succeeded.
AfterIteration == pc = "loop" /\ calls.close > 0

\* C1: after every iteration that completes Open, Drain and Close without a
\* fatal error the target file exists and is exactly effective_length bytes
\* long, whatever it was before the iteration.
C1_LengthAfterIteration ==
  AfterIteration => (file.exists /\ Len(file.data) = EffectiveLen)

\* C2: in every iteration i that reaches Close, whatever the write outcomes
\* were, the bytes the file accepted are exactly the file_chunks chunks
\* i mod C, (i+1) mod C, ... in order, effective_length bytes in total.
C2_DrainWritesRun ==
  (pc = "drain" /\ iovs_remaining = 0) =>
    /\ fpos = EffectiveLen
    /\ SubSeq(file.data, 1, fpos) = ChunkRun(i, file_chunks)

\* C4: a short vectored write that stops on a descriptor boundary issues no
\* corrective write and advances the run by accepted / chunk_size
\* descriptors; one that stops inside a descriptor is followed by exactly one
\* corrective write, of that one descriptor with its pointer advanced and its
\* length reduced by the bytes already written from it, after which (unless
\* the corrective write is fatal) the run is past that descriptor.
C4_AfterShortWritev ==
  (last_call.kind = "writev" /\ last_call.ret >= 0 /\ last_call.ret < last_call.len) =>
    LET whole == last_call.ret \div ChunkSize
        part == last_call.ret % ChunkSize
    IN IF part = 0
       THEN /\ pc = "drain"
            /\ piov = last_call.idx + whole
            /\ \A k \in DOMAIN iovs :
                 iovs[k] = [base |-> (k % ChunkCount) * alignment, len |-> ChunkSize]
       ELSE /\ pc = "partial"
            /\ piov = last_call.idx
            /\ iovs_to_write = whole
            /\ \A k \in DOMAIN iovs :
                 iovs[k] = IF k = piov + whole
                           THEN [base |-> (k % ChunkCount) * alignment + part,
                                 len |-> ChunkSize - part]
                           ELSE [base |-> (k % ChunkCount) * alignment,
                                 len |-> ChunkSize]

C4_AfterCorrective ==
  last_call.kind = "corrective" =>
    /\ last_call.count = 1
    /\ bytes_written_partial \in 1..(ChunkSize - 1)
    /\ last_call.base = (last_call.idx % ChunkCount) * alignment + bytes_written_partial
    /\ last_call.len = ChunkSize - bytes_written_partial
    /\ pc \in {"drain", "exit"}
    /\ pc = "drain" => piov = last_call.idx + 1

C5_CorrectiveFatalIff ==
  last_call.kind = "corrective" =>
    ((pc = "exit" /\ status # 0) <=>
       (last_call.ret = -1 \/ last_call.ret < ChunkSize - bytes_written_partial))

\* C3: the drain of iteration i (0-based) starts at descriptor i mod C, so
\* the files start with chunk 0, 1, ..., C-1, 0, ... (0, 1, 0 for C = 2 and
\* three iterations), and for C >= 2 consecutive iterations start with
\* different chunks.
C3_StartRotates ==
  /\ Len(starts) = calls.open
  /\ pc \in {"drain", "partial"} => Len(starts) = i + 1
  /\ \A k \in 1..Len(starts) :
       /\ starts[k].idx = (k - 1) % ChunkCount
       /\ starts[k].base = ((k - 1) % ChunkCount) * alignment
  /\ \A k \in 1..(Len(starts) - 1) :
       ChunkCount >= 2 => starts[k + 1].base # starts[k].base
  /\ (ChunkCount = 2 /\ Len(starts) = 3) =>
       <<starts[1].idx, starts[2].idx, starts[3].idx>> = <<0, 1, 0>>

\* Three iterations were started with two unique chunks.
C3_Witness == ChunkCount = 2 /\ Len(starts) = 3

\* C6: an open with direct I/O that fails with EINVAL in the first iteration
\* is retried exactly once without direct I/O; a successful retry emits the
\* warning, once, and every later open omits direct I/O.  Direct I/O is
\* dropped in no other iteration and, once dropped, never requested again.
C6_OpenCalls ==
  /\ Len(open_calls) \in 0..2
  /\ Len(open_calls) = 2 <=>
       /\ open_calls # <<>>
       /\ open_calls[1].iter = 0
       /\ open_calls[1].direct
       /\ open_calls[1].result = "EINVAL"
  /\ Len(open_calls) = 2 =>
       /\ ~open_calls[2].direct
       /\ open_calls[2].iter = 0
       /\ O_DIRECT \notin oflags
       /\ warnings = (IF open_calls[2].result = "ok" THEN 1 ELSE 0)
       /\ open_calls[2].result # "ok" => (pc = "exit" /\ status # 0)
  /\ warnings \in 0..1
  /\ warnings = 1 => O_DIRECT \notin oflags
  /\ (oflags # {} /\ O_DIRECT \notin oflags /\ open_calls # <<>>) =>
       ~open_calls[Len(open_calls)].direct
  /\ (Len(open_calls) = 1 /\ open_calls[1].iter > 0) =>
       open_calls[1].direct = (O_DIRECT \in oflags)

C6_DirectDowngrade ==
  /\ []C6_OpenCalls
  /\ [][/\ (O_DIRECT \in oflags /\ O_DIRECT \notin oflags') =>
             (i = 0 /\ pc = "loop" /\ Len(open_calls') = 2)
        /\ (oflags # {} /\ O_DIRECT \notin oflags) => O_DIRECT \notin oflags'
        /\ warnings' # warnings => (i = 0 /\ warnings = 0)]_vars

\* After a downgrade in the first iteration, a later iteration opened the
\* file without direct I/O.
C6_Witness ==
  /\ warnings = 1
  /\ pc = "drain"
  /\ i > 0
  /\ open_calls = <<[iter |-> i, direct |-> FALSE, result |-> "ok"]>>

\* C7: with ITERS = N > 0 and no fatal error there are exactly N
\* open-drain-close cycles and then exit status 0; with ITERS = 0 the program
\* never exits normally and opens again after every successful close.
C7_ExitsAfterN ==
  (pc = "exit" /\ status = 0 /\ ~opts.dry_run) =>
    (niters > 0 /\ calls.open = niters /\ calls.close = niters /\ i = niters)

C7_IterationCount ==
  /\ []C7_ExitsAfterN
  /\ [][(pc = "loop" /\ ~opts.dry_run) =>
          IF niters = 0 \/ calls.close < niters
          THEN last_call'.kind = "open"
          ELSE pc' = "exit" /\ status' = 0 /\ last_call' = last_call]_vars

\* A run of more than one iteration ended normally.
C7_Witness ==
  /\ pc = "exit"
  /\ status = 0
  /\ niters > 1
  /\ calls.close = niters

\* C8: effective_length is the largest multiple of chunk_size not above the
\* requested length, file_chunks = floor(target_length / chunk_size), and an
\* effective_length of 0 is rejected with a non-zero exit before any open.
C8_EffectiveLength ==
  pc # "plan" =>
    /\ file_chunks = length_arg \div ChunkSize
    /\ file_size = file_chunks * ChunkSize
    /\ file_size <= length_arg
    /\ length_arg < file_size + ChunkSize
    /\ file_size = 0 =>
         /\ pc = "exit"
         /\ status # 0
         /\ calls.open = 0
         /\ open_calls = <<>>
         /\ last_call = NoCall
         /\ buffer = <<>>

\* A non-zero length below one chunk was rejected.
C8_Witness ==
  /\ pc = "exit"
  /\ length_arg > 0
  /\ file_size = 0

BufferFilled ==
  /\ buffer_size > 0
  /\ DOMAIN buffer = 0..(buffer_size - 1)
  /\ \A o \in DOMAIN buffer : buffer[o] = FillByte(o)

\* No open, write or close has been issued on the target.
NoTargetCall ==
  /\ last_call = NoCall
  /\ open_calls = <<>>
  /\ calls = [open |-> 0, close |-> 0]
  /\ fd = "closed"
  /\ fpos = 0

C11_DryRunState ==
  opts.dry_run =>
    /\ NoTargetCall
    /\ pc \notin {"iovs", "loop", "drain", "partial"}
    /\ (pc = "dryrun" => BufferFilled)
    /\ (pc = "dryrun" /\ opts.verbose =>
          /\ DOMAIN cksums = 0..(ChunkCount - 1)
          /\ \A k \in DOMAIN cksums : cksums[k] = Chunk(k))
    /\ (pc = "exit" /\ buffer # <<>> /\ locked => BufferFilled /\ status = 0)

\* C11: in dry-run mode the buffer is built and filled (and the checksums
\* of all chunk_count chunks are displayed when verbose), the program then
\* exits with status 0, no open, write or close is ever issued on the
\* target, and the target file is never changed.
C11_DryRunNoIO ==
  /\ []C11_DryRunState
  /\ [][opts.dry_run =>
          /\ file' = file
          /\ (pc = "dryrun" => pc' = "exit" /\ status' = 0)]_vars

\* A verbose dry run over an existing target has exited after the fill.
C11_Witness ==
  /\ opts.dry_run
  /\ opts.verbose
  /\ pc = "exit"
  /\ status = 0
  /\ BufferFilled
  /\ ChunkCount >= 2
  /\ cksums # <<>>
  /\ file.exists

\* ---------------------------------------------------------------- C12
\* C12: a chunk count of zero or a chunk size of zero on the command line is
\* rejected by the option parser: the run never gets past it except to exit
\* with a non-zero status, no buffer is allocated and no open, write or
\* close is issued on the target.
C12_ZeroRejected ==
  (ChunkCount = 0 \/ ChunkSize = 0) =>
    /\ pc \in {"parse", "exit"}
    /\ (pc = "exit" => status # 0)
    /\ buffer = <<>>
    /\ buffer_size = 0
    /\ NoTargetCall

\* ---------------------------------------------------------------- C13
\* The first open of an iteration failed in the one way that is retried:
\* EINVAL in iteration 0 with O_DIRECT requested.
RecognisedDowngrade(call) ==
  call.result = "EINVAL" /\ call.iter = 0 /\ call.direct

C13_FailedCallState ==
  /\ (last_call.ret = -1 => pc = "exit" /\ status # 0)
  /\ \A n \in DOMAIN open_calls :
       open_calls[n].result # "ok" /\ ~(n = 1 /\ RecognisedDowngrade(open_calls[n]))
         => /\ n = Len(open_calls)
            /\ last_call.kind = "open"
            /\ last_call.ret = -1
            /\ pc = "exit"
            /\ status # 0

\* C13: a failed open other than the retried first-iteration EINVAL (a
\* failed retry and an EINVAL of a later iteration included), a write call
\* that returns an error and a failed close each end the run: the process
\* has exited with a non-zero status, and nothing happens after an exit, so
\* no further open, write or close is issued.
C13_FailuresAreFatal ==
  /\ []C13_FailedCallState
  /\ [][pc # "exit"]_vars

\* An EINVAL from the open of a later iteration has ended the run.
C13_Witness ==
  /\ pc = "exit"
  /\ status # 0
  /\ Len(open_calls) = 1
  /\ open_calls[1].result = "EINVAL"
  /\ open_calls[1].direct
  /\ open_calls[1].iter >= 1
  /\ calls.close >= 1

\* The retry without O_DIRECT has failed and ended the run.
C13_WitnessRetry ==
  /\ pc = "exit"
  /\ Len(open_calls) = 2
  /\ open_calls[2].result # "ok"

\* ---------------------------------------------------------------- C14
\* The resolver has run: alignment holds the resolved value.
AlignmentResolved == pc \notin {"parse", "plan", "pathconf", "killed"}
                     /\ ~(pc = "exit" /\ file_chunks = 0)

\* C14: when the allocation of the buffer is attempted, the resolved
\* alignment is positive and at most chunk_size; a resolved alignment that
\* is zero, negative or greater than chunk_size gets no further than the
\* validation, which exits with a non-zero status before any allocation.
C14_AlignmentValidated ==
  AlignmentResolved /\ alignment \notin 1..ChunkSize =>
    /\ pc \in {"validate", "exit"}
    /\ (pc = "exit" => status # 0)
    /\ buffer_size = 0
    /\ buffer = <<>>

\* ---------------------------------------------------------------- C15
\* The query on the target gave no alignment, because the path is missing
\* or because no requirement is reported and no error is signalled, and the
\* fallback query, if one was made, gave none either.
NoRequirementFound ==
  /\ pathconf_calls # <<>>
  /\ pathconf_calls[1].ret = -1
  /\ pathconf_calls[1].errno \in {NoError, "ENOENT"}
  /\ (Len(pathconf_calls) = 2 => pathconf_calls[2].ret = -1)

\* C15: when no query determines an alignment requirement, the resolved
\* alignment is the default of 4096 bytes, which the resolver assigns only
\* on the path that goes on to the validation.
C15_DefaultAlignment == NoRequirementFound => alignment = DEFAULT_ALIGNMENT

\* ---------------------------------------------------------------- C16
\* The query on the target failed with an error other than a missing path.
TargetQueryError ==
  /\ pathconf_calls # <<>>
  /\ pathconf_calls[1].ret = -1
  /\ pathconf_calls[1].errno \notin {NoError, "ENOENT"}

\* C16: a query on the target that fails with a system error other than
\* "no such path" aborts startup with a non-zero status: no fallback query,
\* no default, no allocation, no call on the target; the fallback query is
\* made only when the target path does not exist.
C16_QueryErrorFatal ==
  /\ TargetQueryError =>
       /\ Len(pathconf_calls) = 1
       /\ pc = "exit"
       /\ status # 0
       /\ alignment # DEFAULT_ALIGNMENT
       /\ buffer = <<>>
       /\ NoTargetCall
  /\ Len(pathconf_calls) = 2 =>
       pathconf_calls[1].ret = -1 /\ pathconf_calls[1].errno = "ENOENT"

\* ---------------------------------------------------------------- C17
\* C17: every vectored write of the drain, made with r descriptors
\* remaining, is given n = min(r, IOV_MAX, SSIZE_MAX div chunk_size)
\* descriptors, so n <= IOV_MAX and the product n * chunk_size, computed
\* without wrapping, is at most SSIZE_MAX.
C17_WritevCount ==
  [][pc = "drain" /\ iovs_remaining > 0 =>
       LET n == last_call'.count
       IN /\ last_call'.kind = "writev"
          /\ last_call'.idx = piov
          /\ n = Min(Min(iovs_remaining, IOV_MAX), SSIZE_MAX \div ChunkSize)
          /\ n <= IOV_MAX
          /\ n * ChunkSize <= SSIZE_MAX
          /\ last_call'.len = n * ChunkSize]_vars

\* The first writev of a run was cut down by the byte ceiling, not by
\* IOV_MAX or by the descriptors remaining, and still took a descriptor.
C17_Witness ==
  /\ last_call.kind = "writev"
  /\ i = 0
  /\ last_call.idx = 0
  /\ last_call.count = SSIZE_MAX \div ChunkSize
  /\ last_call.count >= 1
  /\ last_call.count < IOV_MAX
  /\ last_call.count < file_chunks

\* A writev was cut down by IOV_MAX.
C17_WitnessIovMax ==
  /\ last_call.kind = "writev"
  /\ i = 0
  /\ last_call.idx = 0
  /\ last_call.count = IOV_MAX
  /\ file_chunks > IOV_MAX
  /\ ChunkSize > DEFAULT_ALIGNMENT

\* ---------------------------------------------------------------- C18
\* C18: the allocated buffer has chunk_size + (C-1)*alignment bytes as the
\* program's arithmetic computes them (the product in unsigned int, the sum
\* in size_t), and the chunk_size bytes every descriptor references, from
\* offset (k mod C)*alignment on, lie inside those buffer_size bytes.
C18_ChunksInsideBuffer ==
  iovs # <<>> =>
    /\ buffer_size =
         (ChunkSize + (((ChunkCount - 1) * alignment) % UintMod)) % SizeMod
    /\ \A k \in DOMAIN iovs :
         /\ iovs[k].base >= 0
         /\ iovs[k].base + iovs[k].len <= buffer_size
         /\ (k % ChunkCount) * alignment + ChunkSize <= buffer_size

\* ---------------------------------------------------------------- C19
\* Descriptor k as the planner built it.
BuiltIov(k) == [base |-> (k % ChunkCount) * alignment, len |-> ChunkSize]

\* The descriptor a corrective write is pending for.
PendingIov == piov + iovs_to_write

\* C19: at the start of every iteration, and whenever no corrective write
\* is pending, every descriptor has the value it was built with; while a
\* corrective write is pending (or has failed and ended the run) the one
\* descriptor it is for is the only one that differs, and it has been
\* restored when the run moves past it.
C19_IovsRestored ==
  iovs # <<>> =>
    /\ pc \in {"loop", "drain"} => \A k \in DOMAIN iovs : iovs[k] = BuiltIov(k)
    /\ pc \in {"partial", "exit"} =>
         \A k \in DOMAIN iovs : k # PendingIov => iovs[k] = BuiltIov(k)
    /\ pc = "exit" /\ last_call.kind # "corrective" =>
         \A k \in DOMAIN iovs : iovs[k] = BuiltIov(k)

\* A later iteration starts after a corrective write of an earlier one.
C19_Witness ==
  /\ pc = "drain"
  /\ i >= 1
  /\ last_call.kind = "open"
  /\ iovs_remaining = file_chunks
  /\ bytes_written_partial > 0
  /\ ChunkCount >= 2
  /\ alignment < ChunkSize

\* ---------------------------------------------------------------- C20
\* A step of the drain loop ends the run, or goes from the writev to its
\* corrective write, or leaves fewer descriptors remaining.
PassMakesProgress ==
  pc \in {"drain", "partial"} /\ iovs_remaining > 0 =>
    \/ pc' = "exit"
    \/ pc = "drain" /\ pc' = "partial"
    \/ iovs_remaining' < iovs_remaining

\* C20: every pass of the drain loop (a writev and, if one is needed, its
\* corrective write) either ends the run or leaves fewer descriptors
\* remaining than it found, whatever the write calls return.
C20_PassMakesProgress == [][PassMakesProgress]_vars

\* ---------------------------------------------------------------- C21
\* The buffer has been locked or the target has been opened.
ResourcesHeld == locked \/ calls.open > 0 \/ fd = "open"

\* C21: when the process has returned after the buffer was locked or a file
\* was opened (after the last iteration, from a dry run, or from a fatal
\* error), the descriptor of the current iteration is closed and the buffer
\* is unlocked and released.
C21_ReleasedAtExit ==
  pc = "exit" /\ ResourcesHeld =>
    /\ fd = "closed"
    /\ ~locked
    /\ buffer = <<>>

\* ---------------------------------------------------------------- C22
\* The number of entries of the descriptor array.
IovsLen == file_chunks + ChunkCount - 1

\* C22: the descriptor array has file_chunks + C - 1 entries, and every
\* descriptor handed to a write call, the count descriptors of a writev and
\* the one descriptor of a corrective write, as well as every descriptor
\* the drain still has to hand over, has an index in 0..IovsLen-1, also
\* when file_chunks < C.
C22_IndexesInsideArray ==
  iovs # <<>> =>
    /\ DOMAIN iovs = 0..(IovsLen - 1)
    /\ pc = "drain" => piov >= 0 /\ piov + iovs_remaining <= IovsLen
    /\ pc = "partial" => piov >= 0 /\ piov + iovs_to_write < IovsLen
    /\ last_call.kind = "writev" =>
         last_call.idx >= 0 /\ last_call.idx + last_call.count <= IovsLen
    /\ last_call.kind = "corrective" =>
         last_call.idx >= 0 /\ last_call.idx < IovsLen

\* With fewer file chunks than unique chunks, a corrective write was made
\* for the last entry of the array.
C22_Witness ==
  /\ file_chunks < ChunkCount
  /\ last_call.kind = "corrective"
  /\ last_call.idx = IovsLen - 1
  /\ i >= 1

\* ---------------------------------------------------------------- C23
\* C23: while the target is open with O_DIRECT, every write call starts at
\* a buffer offset that is a multiple of the resolved alignment, and every
\* descriptor it is given (chunk_size bytes in a writev of the drain, the
\* rest of one chunk in a corrective write) has a length that is a multiple
\* of the resolved alignment.
C23_DirectWritesAligned ==
  O_DIRECT \in oflags /\ last_call.kind \in {"writev", "corrective"} =>
    /\ last_call.base % alignment = 0
    /\ last_call.kind = "writev" => ChunkSize % alignment = 0
    /\ last_call.kind = "corrective" => last_call.len % alignment = 0

====
